---------------------------- MODULE Spec2Model ----------------------------
(***************************************************************************)
(* infrabase: a machine inventory.  The model covers src/main.rs:          *)
(*   increment_ip, get_unused_wireguard_ip   (WireGuard address allocator) *)
(*   add_machine                             (provisioning + insert)       *)
(*   print_ssh_config                        (address resolver + renderer) *)
(* An Ipv4Addr is the tuple of its four octets, an IpNetwork a record of   *)
(* an address and a prefix length, Option<T> a sequence of length 0 or 1,  *)
(* Result<T, Error> a tagged pair.                                         *)
(***************************************************************************)
EXTENDS Integers, Sequences, FiniteSets, TLC

VARIABLES
    machines,           \* table machines: sequence of Machine rows
    machine_addresses,  \* table machine_addresses: sequence of MachineAddress rows
    network_links,      \* table network_links: set of NetworkLink rows
    dirs,               \* directories of the local filesystem (set of paths)
    files,              \* files of the local filesystem (set of paths)
    stdout,             \* what the invocation printed: sequence of blocks
    call,               \* the last invocation: function and arguments
    result,             \* what the last invocation returned
    resolved,           \* print_ssh_config: (address, ssh_port) of each loop iteration
    procs               \* concurrent add_machine invocations: locals and position

vars == <<machines, machine_addresses, network_links, dirs, files, stdout,
          call, result, resolved, procs>>

-----------------------------------------------------------------------------
(* Bounds of the model *)

\* octets 0..OctetSpan and 255-OctetSpan..255 are the inputs of increment_ip
OctetSpan == 1
\* the allocator's addresses: IpSpan+1 around an octet boundary, IpSpan+1 at the top
IpSpan == 2
\* rows of the machines table
MaxMachines == 3
\* add_machine invocations running at the same time
NumProcs == 2

-----------------------------------------------------------------------------
(* Option, Result *)

None == <<>>
Some(x) == <<x>>
Unwrap(opt) == opt[1]

NoResult == <<"Pending">>
Ok(v) == <<"Ok", v>>
Err(e) == <<"Err", e>>
\* a variant of enum Error with the value it carries ("" when it carries none)
Error(kind, detail) == [kind |-> kind, detail |-> detail]
IsOk(r) == r[1] = "Ok"
IsErr(r) == r[1] = "Err"
Payload(r) == r[2]

-----------------------------------------------------------------------------
(* IPv4 addresses *)

MaxOctet == 255
Broadcast == <<MaxOctet, MaxOctet, MaxOctet, MaxOctet>>

\* IpNetwork::new(IpAddr::V4(ip), 32)
IpNetworkNew(ip, prefix) == [ip |-> ip, prefix |-> prefix]
\* IpNetwork::ip(): the address without the prefix length
IpOf(ipnetwork) == ipnetwork.ip

\* the loop of increment_ip, from octet i (4 is the last octet) down to 1
RECURSIVE IncrementOctets(_, _)
IncrementOctets(octets, i) ==
    IF i = 0 THEN octets
    ELSE IF octets[i] < MaxOctet
         THEN [octets EXCEPT ![i] = @ + 1]
         ELSE IncrementOctets([octets EXCEPT ![i] = 0], i - 1)

\* mutant: the carry does not reset the octet it leaves
RECURSIVE IncrementOctetsNoReset(_, _)
IncrementOctetsNoReset(octets, i) ==
    IF i = 0 THEN octets
    ELSE IF octets[i] < MaxOctet
         THEN [octets EXCEPT ![i] = @ + 1]
         ELSE IncrementOctetsNoReset(octets, i - 1)

increment_ip_no_reset(ip) ==
    IF ip = Broadcast THEN None ELSE Some(IncrementOctetsNoReset(ip, 4))

increment_ip(ip) ==
    IF ip = Broadcast THEN None ELSE Some(IncrementOctets(ip, 4))

\* mutant: only the first row is looked at
get_existing_wireguard_ips_first(rows) ==
    IF rows # <<>> /\ rows[1].wireguard_ip # None
    THEN {Unwrap(rows[1].wireguard_ip)} ELSE {}

\* get_existing_wireguard_ips: the wireguard_ip of every row that has one
get_existing_wireguard_ips(rows) ==
    { Unwrap(rows[i].wireguard_ip) :
        i \in { j \in 1..Len(rows) : rows[j].wireguard_ip # None } }

\* the for loop of get_unused_wireguard_ip over iter::successors(start_ip, increment_ip)
RECURSIVE ScanFrom(_, _, _)
ScanFrom(existing, proposed, end_ip) ==
    IF proposed = None THEN Err(Error("NoWireGuardAddressAvailable", ""))
    ELSE LET proposed_ip == Unwrap(proposed)
             ipnetwork == IpNetworkNew(proposed_ip, 32)
         IN  IF ipnetwork \notin existing THEN Ok(ipnetwork)
             ELSE IF proposed_ip = end_ip THEN Err(Error("NoWireGuardAddressAvailable", ""))
             ELSE ScanFrom(existing, increment_ip(proposed_ip), end_ip)

\* mutant: the scan stops before it tries end_ip
RECURSIVE ScanFromExclusive(_, _, _)
ScanFromExclusive(existing, proposed, end_ip) ==
    IF proposed = None THEN Err(Error("NoWireGuardAddressAvailable", ""))
    ELSE LET proposed_ip == Unwrap(proposed)
             ipnetwork == IpNetworkNew(proposed_ip, 32)
         IN  IF proposed_ip = end_ip THEN Err(Error("NoWireGuardAddressAvailable", ""))
             ELSE IF ipnetwork \notin existing THEN Ok(ipnetwork)
             ELSE ScanFromExclusive(existing, increment_ip(proposed_ip), end_ip)

get_unused_wireguard_ip_exclusive(rows, start_ip, end_ip) ==
    ScanFromExclusive(get_existing_wireguard_ips(rows), Some(start_ip), end_ip)

get_unused_wireguard_ip(rows, start_ip, end_ip) ==
    ScanFrom(get_existing_wireguard_ips(rows), Some(start_ip), end_ip)

-----------------------------------------------------------------------------
(* Inputs *)

\* Ipv4Addr::new from the two 16-bit halves of the address
Ipv4FromHalves(hi, lo) == <<hi \div 256, hi % 256, lo \div 256, lo % 256>>

OctetSamples == (0..OctetSpan) \cup ((MaxOctet - OctetSpan)..MaxOctet)
TestIps == { <<a, b, c, d>> : a \in OctetSamples, b \in OctetSamples,
                              c \in OctetSamples, d \in OctetSamples }

\* 10.0.0.254, 10.0.0.255, 10.0.1.0, ... and ..., 255.255.255.254, 255.255.255.255
AllocIps == { Ipv4FromHalves(2560, 254 + k) : k \in 0..IpSpan }
            \cup { Ipv4FromHalves(65535, 65535 - k) : k \in 0..IpSpan }

HostnamePool == <<"alice", "bob", "carol", "dave", "erin", "frank", "grace", "heidi">>

\* a row of the machines table, as add_machine builds it
NewMachine(hostname, wireguard_ip, wireguard_pubkey, ssh_port, ssh_user, owner, provider_id) ==
    [hostname |-> hostname, wireguard_ip |-> wireguard_ip,
     wireguard_pubkey |-> wireguard_pubkey, ssh_port |-> ssh_port,
     ssh_user |-> ssh_user, owner |-> owner, provider_id |-> provider_id]

\* a Machine row entered out of band: no key, no user, no provider
Machine(hostname, owner, ssh_port, wireguard_ip) ==
    NewMachine(hostname, wireguard_ip, None, ssh_port, None, owner, None)

\* the numerically smallest address of a non-empty set
IpLess(a, b) ==
    \E i \in 1..4 : a[i] < b[i] /\ \A j \in 1..(i - 1) : a[j] = b[j]
IpLeq(a, b) == a = b \/ IpLess(a, b)
MinIp(S) == CHOOSE a \in S : \A b \in S : IpLeq(a, b)

\* rows for the addresses of S in increasing order, hostnames from the pool
RECURSIVE RowsOf(_, _)
RowsOf(S, n) ==
    IF S = {} THEN <<>>
    ELSE <<Machine(HostnamePool[n], "ops", Some(22), Some(IpNetworkNew(MinIp(S), 32)))>>
         \o RowsOf(S \ {MinIp(S)}, n + 1)

\* inventories: up to MaxMachines rows with pairwise distinct /32 addresses,
\* the last row possibly without a WireGuard address
Inventories ==
    { RowsOf(S, 1) : S \in { T \in SUBSET AllocIps : Cardinality(T) <= MaxMachines } }
    \cup { RowsOf(S, 1) \o <<Machine(HostnamePool[Cardinality(S) + 1], "ops", Some(22), None)>> :
             S \in { T \in SUBSET AllocIps : Cardinality(T) < MaxMachines } }

-----------------------------------------------------------------------------
(* increment_ip on its own *)

InitIncrement ==
    /\ machines = <<>> /\ machine_addresses = <<>> /\ network_links = {}
    /\ dirs = {} /\ files = {} /\ stdout = <<>> /\ resolved = <<>> /\ procs = <<>>
    /\ call = [fn |-> "none"]
    /\ result = NoResult

IncrementIp ==
    \E ip \in TestIps :
        /\ call' = [fn |-> "increment_ip", ip |-> ip]
        /\ result' = increment_ip(ip)
        /\ UNCHANGED <<machines, machine_addresses, network_links, dirs, files,
                       stdout, resolved, procs>>

SpecIncrement == InitIncrement /\ [][IncrementIp]_vars

-----------------------------------------------------------------------------
(* get_unused_wireguard_ip on its own *)

InitAlloc ==
    /\ machines \in Inventories
    /\ machine_addresses = <<>> /\ network_links = {}
    /\ dirs = {} /\ files = {} /\ stdout = <<>> /\ resolved = <<>> /\ procs = <<>>
    /\ call = [fn |-> "none"]
    /\ result = NoResult

GetUnusedWireguardIp ==
    \E start_ip \in AllocIps, end_ip \in AllocIps :
        /\ call' = [fn |-> "get_unused_wireguard_ip",
                    start_ip |-> start_ip, end_ip |-> end_ip]
        /\ result' = get_unused_wireguard_ip(machines, start_ip, end_ip)
        /\ UNCHANGED <<machines, machine_addresses, network_links, dirs, files,
                       stdout, resolved, procs>>

SpecAlloc == InitAlloc /\ [][GetUnusedWireguardIp]_vars

-----------------------------------------------------------------------------
(* Properties of increment_ip *)

\* the address as two 16-bit halves, most significant first
Hi16(ip) == ip[1] * 256 + ip[2]
Lo16(ip) == ip[3] * 256 + ip[4]
IsIpv4(ip) == Len(ip) = 4 /\ \A i \in 1..4 : ip[i] \in 0..MaxOctet
\* the big-endian 32-bit value of r is the one of ip plus one
OneGreater(ip, r) ==
    /\ IsIpv4(r)
    /\ \/ Lo16(ip) < 65535 /\ Hi16(r) = Hi16(ip) /\ Lo16(r) = Lo16(ip) + 1
       \/ Lo16(ip) = 65535 /\ Hi16(r) = Hi16(ip) + 1 /\ Lo16(r) = 0

\* C1: increment_ip returns, for every address but 255.255.255.255, the address
\* whose big-endian 32-bit value is one greater (the carry turns trailing 255
\* octets into 0), and None for 255.255.255.255.
C1_IncrementIsSuccessor ==
    call.fn = "increment_ip" =>
        IF call.ip = Broadcast
        THEN result = None
        ELSE /\ result # None
             /\ OneGreater(call.ip, Unwrap(result))
             /\ \A i \in 1..4 :
                    (\A j \in i..4 : call.ip[j] = MaxOctet) => Unwrap(result)[i] = 0

\* C1 witness: a carry across two octets has been computed
C1_Witness ==
    /\ call.fn = "increment_ip"
    /\ call.ip = <<0, 1, 255, 255>>
    /\ result = Some(<<0, 2, 0, 0>>)

-----------------------------------------------------------------------------
(* Properties of get_unused_wireguard_ip *)

Assigned == { IpOf(n) : n \in get_existing_wireguard_ips(machines) }
InRange(ip, start_ip, end_ip) == IpLeq(start_ip, ip) /\ IpLeq(ip, end_ip)
\* every address from start_ip up to, and without, bound is assigned
AllAssignedBelow(start_ip, bound) ==
    \/ start_ip = bound
    \/ /\ start_ip \in Assigned
       /\ \A a \in Assigned :
            (IpLeq(start_ip, a) /\ IpLess(a, bound)) =>
                \E b \in Assigned \cup {bound} : OneGreater(a, b)
\* every address of [start_ip, end_ip] is assigned
AllAssigned(start_ip, end_ip) ==
    AllAssignedBelow(start_ip, end_ip) /\ end_ip \in Assigned

\* C2: with start <= end, the allocator returns the smallest unassigned address
\* of [start, end] when there is one, and fails with NoWireGuardAddressAvailable
\* when every address of the range is assigned (it never goes past end).
C2_SmallestFreeInRange ==
    (call.fn = "get_unused_wireguard_ip" /\ IpLeq(call.start_ip, call.end_ip)) =>
        IF AllAssigned(call.start_ip, call.end_ip)
        THEN result = Err(Error("NoWireGuardAddressAvailable", ""))
        ELSE /\ IsOk(result)
             /\ Payload(result).prefix = 32
             /\ InRange(IpOf(Payload(result)), call.start_ip, call.end_ip)
             /\ IpOf(Payload(result)) \notin Assigned
             /\ AllAssignedBelow(call.start_ip, IpOf(Payload(result)))

\* C2 witness: the range is full across an octet boundary, end was the last
\* candidate, and the address right above end is free
C2_Witness ==
    /\ call.fn = "get_unused_wireguard_ip"
    /\ call.start_ip = <<10, 0, 0, 254>> /\ call.end_ip = <<10, 0, 1, 0>>
    /\ Assigned = {<<10, 0, 0, 254>>, <<10, 0, 0, 255>>, <<10, 0, 1, 0>>}
    /\ result = Err(Error("NoWireGuardAddressAvailable", ""))

\* C3: whatever the order of start and end, an address the allocator returns
\* lies in [start, end] and is no machine's wireguard_ip.
C3_ResultInRangeAndUnused ==
    (call.fn = "get_unused_wireguard_ip" /\ IsOk(result)) =>
        /\ InRange(IpOf(Payload(result)), call.start_ip, call.end_ip)
        /\ Payload(result) \notin get_existing_wireguard_ips(machines)

-----------------------------------------------------------------------------
(* add_machine *)

\* The environment: every variable unset (None) or set to a text.  The text of
\* an address is the list of its dot-separated numbers, the text of a number
\* the number, the text of the path template the list of its path components.
DefaultEnv ==
    [WIREGUARD_IP_START |-> Some(<<10, 0, 0, 254>>),
     WIREGUARD_IP_END |-> Some(<<10, 0, 0, 255>>),
     WIREGUARD_PRIVATE_KEY_PATH_TEMPLATE |-> Some(<<"keys", "{hostname}", "{wireguard_ip}">>),
     DEFAULT_SSH_PORT |-> Some(22),
     DEFAULT_SSH_USER |-> Some("root"),
     DEFAULT_OWNER |-> Some("ops"),
     DEFAULT_PROVIDER |-> Some(1)]

\* env_var
env_var(env, var) ==
    IF env[var] = None THEN Err(Error("Var", var)) ELSE Ok(Unwrap(env[var]))

\* str::parse::<Ipv4Addr>: four numbers, each an octet
ParseIpv4(text, var) ==
    IF Len(text) = 4 /\ \A i \in 1..4 : text[i] \in 0..MaxOctet
    THEN Ok(<<text[1], text[2], text[3], text[4]>>)
    ELSE Err(Error("AddrParse", var))

\* str::parse::<u16>
ParseU16(text, var) ==
    IF text \in 0..65535 THEN Ok(text) ELSE Err(Error("ParseInt", var))

\* str::parse::<u32>; the model's numbers stay far below 2^32
ParseU32(text, var) ==
    IF text >= 0 THEN Ok(text) ELSE Err(Error("ParseInt", var))

\* env_var(var)?.parse::<Ipv4Addr>().context(AddrParse { var })?
EnvIpv4(env, var) ==
    IF IsErr(env_var(env, var)) THEN env_var(env, var)
    ELSE ParseIpv4(Payload(env_var(env, var)), var)

\* unwrap_or_else!(ssh_port, env_var("DEFAULT_SSH_PORT")?.parse::<u16>()...?)
SshPortOrDefault(env, ssh_port) ==
    IF ssh_port # None THEN Ok(Unwrap(ssh_port))
    ELSE IF IsErr(env_var(env, "DEFAULT_SSH_PORT")) THEN env_var(env, "DEFAULT_SSH_PORT")
    ELSE ParseU16(Payload(env_var(env, "DEFAULT_SSH_PORT")), "DEFAULT_SSH_PORT")

\* unwrap_or_else!(opt, env_var(var)?)
OrDefault(env, opt, var) ==
    IF opt # None THEN Ok(Unwrap(opt)) ELSE env_var(env, var)

\* ok_or_else!(provider, match env_var("DEFAULT_PROVIDER") { ... })
ProviderOrDefault(env, provider) ==
    IF provider # None THEN Ok(provider)
    ELSE IF IsErr(env_var(env, "DEFAULT_PROVIDER")) THEN Ok(None)
    ELSE LET parsed == ParseU32(Payload(env_var(env, "DEFAULT_PROVIDER")), "DEFAULT_PROVIDER")
         IN  IF IsErr(parsed) THEN parsed ELSE Ok(Some(Payload(parsed)))

\* the first error of a list of results, None when all are Ok
RECURSIVE FirstError(_)
FirstError(results) ==
    IF results = <<>> THEN None
    ELSE IF IsErr(Head(results)) THEN Some(Head(results))
    ELSE FirstError(Tail(results))

\* the environment variables add_machine reads before anything else, in order
ReadConfig(env, args) ==
    LET start_ip == EnvIpv4(env, "WIREGUARD_IP_START")
        end_ip == EnvIpv4(env, "WIREGUARD_IP_END")
        path_template == env_var(env, "WIREGUARD_PRIVATE_KEY_PATH_TEMPLATE")
        ssh_port == SshPortOrDefault(env, args.ssh_port)
        ssh_user == OrDefault(env, args.ssh_user, "DEFAULT_SSH_USER")
        owner == OrDefault(env, args.owner, "DEFAULT_OWNER")
        provider_id == ProviderOrDefault(env, args.provider)
        failed == FirstError(<<start_ip, end_ip, path_template, ssh_port, ssh_user,
                               owner, provider_id>>)
    IN  IF failed # None THEN Unwrap(failed)
        ELSE Ok([start_ip |-> Payload(start_ip), end_ip |-> Payload(end_ip),
                 path_template |-> Payload(path_template),
                 ssh_port |-> Payload(ssh_port), ssh_user |-> Payload(ssh_user),
                 owner |-> Payload(owner), provider_id |-> Payload(provider_id)])

\* let wireguard_ip = match wireguard_ip { Some(ip) => ..., None => get_unused_wireguard_ip }
ChooseWireguardIp(rows, cfg, args) ==
    IF args.wireguard_ip # None THEN Ok(IpNetworkNew(Unwrap(args.wireguard_ip), 32))
    ELSE get_unused_wireguard_ip(rows, cfg.start_ip, cfg.end_ip)

PathLiterals == {"keys", "privkey"}

\* one component of the template formatted: the hostname, the IpNetwork as
\* Display writes it ("address/prefix", which the path splits in two), or itself
FormatComponent(component, hostname, wireguard_ip) ==
    IF component = "{hostname}" THEN << <<"hostname", hostname>> >>
    ELSE IF component = "{wireguard_ip}"
         THEN << <<"address", IpOf(wireguard_ip)>>, <<"prefix", wireguard_ip.prefix>> >>
         ELSE << <<"literal", component>> >>

RECURSIVE FormatComponents(_, _, _)
FormatComponents(template, hostname, wireguard_ip) ==
    IF template = <<>> THEN <<>>
    ELSE FormatComponent(Head(template), hostname, wireguard_ip)
         \o FormatComponents(Tail(template), hostname, wireguard_ip)

\* rt_format!(path_template, hostname = hostname, wireguard_ip = wireguard_ip)
\*     .map_err(|_| Error::FormatString)
rt_format(template, hostname, wireguard_ip) ==
    IF \E i \in 1..Len(template) :
           template[i] \notin PathLiterals \cup {"{hostname}", "{wireguard_ip}"}
    THEN Err(Error("FormatString", ""))
    ELSE Ok(FormatComponents(template, hostname, wireguard_ip))

\* Path::parent: None for the empty path
Parent(path) == IF path = <<>> THEN None ELSE Some(SubSeq(path, 1, Len(path) - 1))

\* fs::create_dir_all: the directory and every missing ancestor
CreateDirAll(existing_dirs, path) ==
    existing_dirs \cup { SubSeq(path, 1, n) : n \in 1..Len(path) }

\* what add_machine leaves: its return value and the stores it wrote
Outcome(r, rows, d, f) == [result |-> r, machines |-> rows, dirs |-> d, files |-> f]

\* wireguard::generate_keypair: a keypair, or the failure of the key generator;
\* it leaves the filesystem as it is
generate_keypair(fault) ==
    IF fault = "generate_keypair" THEN Err(Error("NonZeroExit", ""))
    ELSE Ok([privkey |-> "generated-privkey", pubkey |-> "generated-pubkey"])

\* the None arm of match wireguard_pubkey: generate the keypair, format the
\* path, create the directories, create the file, write the private key.
\* fault names the outside operation that fails in this run, if any.
ProvisionKey(d, f, cfg, hostname, wireguard_ip, fault) ==
    LET keypair == generate_keypair(fault)
        private_key_file == rt_format(cfg.path_template, hostname, wireguard_ip)
        private_key_path == Payload(private_key_file)
    IN  IF IsErr(keypair) THEN Outcome(keypair, <<>>, d, f)
        ELSE IF IsErr(private_key_file) THEN Outcome(private_key_file, <<>>, d, f)
        ELSE IF Parent(private_key_path) = None
             THEN Outcome(Err(Error("NoParentDirectory", "")), <<>>, d, f)
        ELSE IF fault = "create_dir_all" THEN Outcome(Err(Error("Io", "")), <<>>, d, f)
        ELSE LET made == CreateDirAll(d, Unwrap(Parent(private_key_path)))
             IN  IF fault = "File::create" THEN Outcome(Err(Error("Io", "")), <<>>, made, f)
                 ELSE IF fault = "write_all"
                      THEN Outcome(Err(Error("Io", "")), <<>>, made, f \cup {private_key_path})
                 ELSE Outcome(Ok(Payload(keypair).pubkey), <<>>, made,
                              f \cup {private_key_path})

\* the match on wireguard_pubkey
PubkeyOrProvision(d, f, cfg, args, wireguard_ip, fault) ==
    IF args.wireguard_pubkey # None
    THEN Outcome(Ok(Unwrap(args.wireguard_pubkey)), <<>>, d, f)
    ELSE ProvisionKey(d, f, cfg, args.hostname, wireguard_ip, fault)

\* diesel::insert_into(machines::table).values(&machine).execute(connection)?
\* hostname is the key of the table; no other column is constrained
InsertMachine(rows, machine, fault) ==
    IF fault = "insert" \/ \E i \in 1..Len(rows) : rows[i].hostname = machine.hostname
    THEN Err(Error("Diesel", ""))
    ELSE Ok(Append(rows, machine))

\* let machine = NewMachine { ... }
BuildMachine(cfg, args, wireguard_ip, wireguard_pubkey) ==
    NewMachine(args.hostname, Some(wireguard_ip), Some(wireguard_pubkey),
               Some(cfg.ssh_port), Some(cfg.ssh_user), cfg.owner, cfg.provider_id)

\* mutant: the DEFAULT_* variables are read only when the row is built, after
\* the key has been provisioned
add_machine_late_defaults(rows, d, f, env, args, fault) ==
    LET early == ReadConfig(env, [args EXCEPT !.ssh_port = Some(0), !.ssh_user = Some(""),
                                              !.owner = Some(""), !.provider = Some(0)])
    IN  IF IsErr(early) THEN Outcome(early, rows, d, f)
        ELSE
    LET wireguard_ip == ChooseWireguardIp(rows, Payload(early), args)
    IN  IF IsErr(wireguard_ip) THEN Outcome(wireguard_ip, rows, d, f)
        ELSE
    LET keyed == PubkeyOrProvision(d, f, Payload(early), args, Payload(wireguard_ip), fault)
    IN  IF IsErr(keyed.result) THEN Outcome(keyed.result, rows, keyed.dirs, keyed.files)
        ELSE
    LET config == ReadConfig(env, args)
    IN  IF IsErr(config) THEN Outcome(config, rows, keyed.dirs, keyed.files)
        ELSE
    LET inserted == InsertMachine(rows, BuildMachine(Payload(config), args,
                                      Payload(wireguard_ip), Payload(keyed.result)), fault)
    IN  IF IsErr(inserted) THEN Outcome(inserted, rows, keyed.dirs, keyed.files)
        ELSE Outcome(Ok(<<>>), Payload(inserted), keyed.dirs, keyed.files)

\* add_machine, from the tables and the filesystem it finds
add_machine(rows, d, f, env, args, fault) ==
    LET config == ReadConfig(env, args)
    IN  IF IsErr(config) THEN Outcome(config, rows, d, f)
        ELSE
    LET wireguard_ip == ChooseWireguardIp(rows, Payload(config), args)
    IN  IF IsErr(wireguard_ip) THEN Outcome(wireguard_ip, rows, d, f)
        ELSE
    LET keyed == PubkeyOrProvision(d, f, Payload(config), args, Payload(wireguard_ip), fault)
    IN  IF IsErr(keyed.result) THEN Outcome(keyed.result, rows, keyed.dirs, keyed.files)
        ELSE
    LET inserted == InsertMachine(rows, BuildMachine(Payload(config), args,
                                      Payload(wireguard_ip), Payload(keyed.result)), fault)
    IN  IF IsErr(inserted) THEN Outcome(inserted, rows, keyed.dirs, keyed.files)
        ELSE Outcome(Ok(<<>>), Payload(inserted), keyed.dirs, keyed.files)

\* the environments: the default one, and the default one with one variable
\* unset or unparsable
Environments ==
    {DefaultEnv,
     [DefaultEnv EXCEPT !.WIREGUARD_IP_START = None],
     [DefaultEnv EXCEPT !.WIREGUARD_IP_START = Some(<<10, 0, 0>>)],
     [DefaultEnv EXCEPT !.WIREGUARD_IP_END = None],
     [DefaultEnv EXCEPT !.WIREGUARD_IP_END = Some(<<10, 0, 0, 256>>)],
     [DefaultEnv EXCEPT !.WIREGUARD_PRIVATE_KEY_PATH_TEMPLATE = None],
     [DefaultEnv EXCEPT !.WIREGUARD_PRIVATE_KEY_PATH_TEMPLATE = Some(<<"keys", "{user}">>)],
     [DefaultEnv EXCEPT !.WIREGUARD_PRIVATE_KEY_PATH_TEMPLATE = Some(<<>>)],
     [DefaultEnv EXCEPT !.DEFAULT_SSH_PORT = None],
     [DefaultEnv EXCEPT !.DEFAULT_SSH_PORT = Some(70000)],
     [DefaultEnv EXCEPT !.DEFAULT_SSH_USER = None],
     [DefaultEnv EXCEPT !.DEFAULT_OWNER = None],
     [DefaultEnv EXCEPT !.DEFAULT_PROVIDER = None],
     [DefaultEnv EXCEPT !.DEFAULT_PROVIDER = Some(-1)]}

\* the outside operation that fails during an invocation
Faults == {"none", "generate_keypair", "create_dir_all", "File::create", "write_all", "insert"}

\* the addresses --wireguard-ip is given: 10.0.0.254, 10.0.0.255, 10.0.1.0, ...
GivenIps == { Ipv4FromHalves(2560, 254 + k) : k \in 0..IpSpan }

\* command lines of add: a hostname, a WireGuard address (or none given), a
\* public key (or none given), and owner, port, user and provider all given
\* (givens has TRUE) or all left out (givens has FALSE)
Arguments(hostnames, wireguard_ips, pubkeys, givens) ==
    { [hostname |-> hostname,
       owner |-> IF given THEN Some("ops") ELSE None,
       ssh_port |-> IF given THEN Some(22) ELSE None,
       ssh_user |-> IF given THEN Some("root") ELSE None,
       wireguard_ip |-> wireguard_ip,
       wireguard_pubkey |-> wireguard_pubkey,
       provider |-> IF given THEN Some(1) ELSE None] :
        hostname \in hostnames, given \in givens,
        wireguard_ip \in wireguard_ips, wireguard_pubkey \in pubkeys }

\* the invocations tried from a table whose next unused hostname is fresh:
\* every command line in the default environment; the plain command lines in
\* every environment; the key-generating ones with every fault
Invocations(fresh) ==
    { <<args, DefaultEnv, "none">> :
        args \in Arguments({HostnamePool[1], fresh},
                           {None} \cup { Some(ip) : ip \in GivenIps },
                           {None, Some("given-pubkey")}, BOOLEAN) }
    \cup { <<args, env, "none">> :
        args \in Arguments({fresh}, {None}, {None, Some("given-pubkey")}, BOOLEAN),
        env \in Environments }
    \cup { <<args, DefaultEnv, fault>> :
        args \in Arguments({fresh}, {None}, {None}, {FALSE}), fault \in Faults }

\* inventories the invocations start from: fewer than MaxMachines rows with
\* pairwise distinct addresses
InitAdd ==
    /\ machines \in { RowsOf(S, 1) :
                        S \in { T \in SUBSET GivenIps : Cardinality(T) < MaxMachines } }
    /\ machine_addresses = <<>> /\ network_links = {}
    /\ dirs = {} /\ files = {} /\ stdout = <<>> /\ resolved = <<>> /\ procs = <<>>
    /\ call = [fn |-> "none"]
    /\ result = NoResult

\* one invocation of add, from its first line to its return; the run goes on
\* while no invocation has failed and the table has room
AddMachine ==
    /\ ~ IsErr(result)
    /\ Len(machines) < MaxMachines
    /\ \E invocation \in Invocations(HostnamePool[Len(machines) + 1]) :
        LET args == invocation[1]
            out == add_machine(machines, dirs, files, invocation[2], args, invocation[3])
        IN  /\ call' = [fn |-> "add_machine", hostname |-> args.hostname,
                        wireguard_ip |-> args.wireguard_ip]
            /\ result' = out.result
            /\ machines' = out.machines
            /\ dirs' = out.dirs
            /\ files' = out.files
    /\ UNCHANGED <<machine_addresses, network_links, stdout, resolved, procs>>

SpecAdd == InitAdd /\ [][AddMachine]_vars

-----------------------------------------------------------------------------
(* add_machine invocations running at the same time: each is a process of its
   own on the same database and filesystem; the database is read once (the
   existing addresses) and written once (the insert), nothing is locked in
   between *)

Proc(pc, args, cfg, existing, wireguard_ip, wireguard_pubkey, r) ==
    [pc |-> pc, args |-> args, cfg |-> cfg, existing |-> existing,
     wireguard_ip |-> wireguard_ip, wireguard_pubkey |-> wireguard_pubkey,
     result |-> r]

IdleProc == Proc("start", None, None, <<>>, None, None, NoResult)

InitRace ==
    /\ machines \in { RowsOf(S, 1) :
                        S \in { T \in SUBSET GivenIps : Cardinality(T) < MaxMachines } }
    /\ machine_addresses = <<>> /\ network_links = {}
    /\ dirs = {} /\ files = {} /\ stdout = <<>> /\ resolved = <<>>
    /\ procs = [p \in 1..NumProcs |-> IdleProc]
    /\ call = [fn |-> "add_machine"]
    /\ result = NoResult

\* lines 246-264: the environment, then the existing addresses are read and
\* the address is chosen
RaceAllocate(p) ==
    /\ procs[p].pc = "start"
    /\ \E args \in Arguments({HostnamePool[MaxMachines + 1], HostnamePool[MaxMachines + p]},
                             {None, Some(Ipv4FromHalves(2560, 254))},
                             {None}, {FALSE}) :
        LET config == ReadConfig(DefaultEnv, args)
            wireguard_ip == ChooseWireguardIp(machines, Payload(config), args)
        IN  procs' = [procs EXCEPT ![p] =
                IF IsErr(config)
                THEN Proc("failed", Some(args), None, <<>>, None, None, config)
                ELSE IF IsErr(wireguard_ip)
                THEN Proc("failed", Some(args), Some(Payload(config)), machines, None, None,
                          wireguard_ip)
                ELSE Proc("allocated", Some(args), Some(Payload(config)),
                          IF args.wireguard_ip = None THEN machines ELSE <<>>,
                          Some(Payload(wireguard_ip)), None, NoResult)]
    /\ UNCHANGED <<machines, machine_addresses, network_links, dirs, files, stdout,
                   call, result, resolved>>

\* lines 265-278: the public key is taken from the command line, or a keypair
\* is generated and the private key written
RaceProvision(p) ==
    /\ procs[p].pc = "allocated"
    /\ LET keyed == PubkeyOrProvision(dirs, files, Unwrap(procs[p].cfg), Unwrap(procs[p].args),
                                      Unwrap(procs[p].wireguard_ip), "none")
       IN  /\ dirs' = keyed.dirs
           /\ files' = keyed.files
           /\ procs' = [procs EXCEPT ![p] =
                  IF IsErr(keyed.result)
                  THEN [@ EXCEPT !.pc = "failed", !.result = keyed.result]
                  ELSE [@ EXCEPT !.pc = "keyed",
                                 !.wireguard_pubkey = Some(Payload(keyed.result))]]
    /\ UNCHANGED <<machines, machine_addresses, network_links, stdout, call, result,
                   resolved>>

\* lines 280-294: the row is built and inserted
RaceInsert(p) ==
    /\ procs[p].pc = "keyed"
    /\ LET inserted == InsertMachine(machines,
                           BuildMachine(Unwrap(procs[p].cfg), Unwrap(procs[p].args),
                                        Unwrap(procs[p].wireguard_ip),
                                        Unwrap(procs[p].wireguard_pubkey)), "none")
       IN  IF IsErr(inserted)
           THEN /\ procs' = [procs EXCEPT ![p] = [@ EXCEPT !.pc = "failed", !.result = inserted]]
                /\ UNCHANGED machines
           ELSE /\ procs' = [procs EXCEPT ![p] = [@ EXCEPT !.pc = "done", !.result = Ok(<<>>)]]
                /\ machines' = Payload(inserted)
    /\ UNCHANGED <<machine_addresses, network_links, dirs, files, stdout, call, result,
                   resolved>>

NextRace ==
    \E p \in 1..NumProcs : RaceAllocate(p) \/ RaceProvision(p) \/ RaceInsert(p)

SpecRace == InitRace /\ [][NextRace]_vars

-----------------------------------------------------------------------------
(* print_ssh_config: address resolver and renderer *)

\* rows of the machine_addresses table
MaxAddresses == 3
\* rows of the network_links table
MaxLinks == 2

Networks == {"office", "public"}
Priorities == {1, 2}

\* a MachineAddress row
MachineAddress(hostname, network, address, ssh_port) ==
    [hostname |-> hostname, network |-> network, address |-> address,
     ssh_port |-> ssh_port]

\* get_machines_and_addresses: every machine with its own address rows, in table order
get_machines_and_addresses ==
    [i \in 1..Len(machines) |->
        [machine |-> machines[i],
         addresses |-> SelectSeq(machine_addresses,
                                 LAMBDA a : a.hostname = machines[i].hostname)]]

\* get_network_links_map: (network, other_network) -> priority
get_network_links_map ==
    [pair \in { <<row.name, row.other_network>> : row \in network_links } |->
        (CHOOSE row \in network_links :
            <<row.name, row.other_network>> = pair).priority]

\* addresses.iter().map(|a| a.network.clone()), as the set the product ranges over
NetworksOf(addresses) == { addresses[i].network : i \in 1..Len(addresses) }

\* iproduct!(source_networks, dest_networks) filtered by network_links_map.contains_key
LinkedPairs(source_networks, dest_networks, links) ==
    { pair \in source_networks \X dest_networks : pair \in DOMAIN links }

\* mutant: the sort is descending, the first pair has the largest priority
FirstAfterSortDescending(pairs, links) ==
    IF pairs = {} THEN {None}
    ELSE { Some(pair) : pair \in { q \in pairs : \A r \in pairs : links[q] >= links[r] } }

\* network_to_network.get(0) after sort_unstable_by_key: None when nothing is
\* linked, else a pair of the smallest priority (any of them when several tie)
FirstAfterSort(pairs, links) ==
    IF pairs = {} THEN {None}
    ELSE { Some(pair) : pair \in { q \in pairs : \A r \in pairs : links[q] <= links[r] } }

\* addresses.iter().find(|a| a.network == dest_network).unwrap()
FindAddress(addresses, dest_network) ==
    addresses[CHOOSE i \in 1..Len(addresses) :
                /\ addresses[i].network = dest_network
                /\ \A j \in 1..(i - 1) : addresses[j].network # dest_network]

\* mutant: without a link the first address row is used when there is one
ResolveFallbackToAddress(entry, first) ==
    IF first = None
    THEN IF entry.addresses # <<>>
         THEN <<Some(IpOf(entry.addresses[1].address)), entry.addresses[1].ssh_port>>
         ELSE <<IF entry.machine.wireguard_ip = None THEN None
                ELSE Some(IpOf(Unwrap(entry.machine.wireguard_ip))),
                entry.machine.ssh_port>>
    ELSE LET desired_address == FindAddress(entry.addresses, Unwrap(first)[2])
         IN  <<Some(IpOf(desired_address.address)), desired_address.ssh_port>>

\* the match on network_to_network.get(0): (address, ssh_port)
Resolve(entry, first) ==
    IF first = None
    THEN <<IF entry.machine.wireguard_ip = None THEN None
           ELSE Some(IpOf(Unwrap(entry.machine.wireguard_ip))),
           entry.machine.ssh_port>>
    ELSE LET desired_address == FindAddress(entry.addresses, Unwrap(first)[2])
         IN  <<Some(IpOf(desired_address.address)), desired_address.ssh_port>>

\* the first line print_ssh_config prints
Header(for_machine) == [comment |-> "infrabase-generated SSH config", for |-> for_machine]

\* the host block of a machine
HostBlock(machine, address, port) ==
    [owner |-> machine.owner, Host |-> machine.hostname,
     HostName |-> address, Port |-> port]

\* mutant: the loop returns at the first machine without an endpoint
RECURSIVE BlocksUntilMissing(_, _, _)
BlocksUntilMissing(data, endpoints, i) ==
    IF i > Len(data) THEN <<>>
    ELSE IF endpoints[i][1] # None /\ endpoints[i][2] # None
         THEN <<HostBlock(data[i].machine, Unwrap(endpoints[i][1]), Unwrap(endpoints[i][2]))>>
              \o BlocksUntilMissing(data, endpoints, i + 1)
         ELSE <<>>

\* the if let of the loop, from machine i on: a block when both parts are there
RECURSIVE Blocks(_, _, _)
Blocks(data, endpoints, i) ==
    IF i > Len(data) THEN <<>>
    ELSE (IF endpoints[i][1] # None /\ endpoints[i][2] # None
          THEN <<HostBlock(data[i].machine, Unwrap(endpoints[i][1]), Unwrap(endpoints[i][2]))>>
          ELSE <<>>)
         \o Blocks(data, endpoints, i + 1)

\* mutant: a missing source machine is taken to have no networks
FindSourceOrEmpty(data, for_machine) ==
    IF \E i \in 1..Len(data) : data[i].machine.hostname = for_machine
    THEN Some(data[CHOOSE i \in 1..Len(data) : data[i].machine.hostname = for_machine])
    ELSE Some([machine |-> Machine(for_machine, "", None, None), addresses |-> <<>>])

\* data.iter().find(|(machine, _)| machine.hostname == for_machine)
FindSource(data, for_machine) ==
    IF \E i \in 1..Len(data) : data[i].machine.hostname = for_machine
    THEN Some(data[CHOOSE i \in 1..Len(data) :
                    /\ data[i].machine.hostname = for_machine
                    /\ \A j \in 1..(i - 1) : data[j].machine.hostname # for_machine])
    ELSE None

\* what the loop may compute for every machine: one first pair per machine
RECURSIVE FirstPairs(_, _, _, _)
FirstPairs(data, source_networks, links, i) ==
    IF i > Len(data) THEN {<<>>}
    ELSE { <<first>> \o rest :
             first \in FirstAfterSort(
                 LinkedPairs(source_networks, NetworksOf(data[i].addresses), links), links),
             rest \in FirstPairs(data, source_networks, links, i + 1) }

SourceArguments == {"alice", "bob", "mallory"}

PrintSshConfig ==
    \E for_machine \in SourceArguments :
        LET data == get_machines_and_addresses
            network_links_map == get_network_links_map
            source_machine == FindSource(data, for_machine)
        IN  /\ call.fn = "none"
            /\ call' = [fn |-> "print_ssh_config", for_machine |-> for_machine]
            /\ IF source_machine = None
               THEN /\ result' = Err(Error("MissingSourceMachine", for_machine))
                    /\ UNCHANGED <<stdout, resolved>>
               ELSE \E firsts \in FirstPairs(data,
                                     NetworksOf(Unwrap(source_machine).addresses),
                                     network_links_map, 1) :
                      LET endpoints == [i \in 1..Len(data) |-> Resolve(data[i], firsts[i])]
                      IN  /\ resolved' = endpoints
                          /\ stdout' = <<Header(for_machine)>> \o Blocks(data, endpoints, 1)
                          /\ result' = Ok(<<>>)
            /\ UNCHANGED <<machines, machine_addresses, network_links, dirs, files, procs>>

\* the address rows of one machine: one row per (network, port) of nets
RECURSIVE AddressRows(_, _, _, _)
AddressRows(hostname, base, nets, k) ==
    IF k > Len(nets) THEN <<>>
    ELSE <<MachineAddress(hostname, nets[k][1],
                          IpNetworkNew(<<base[1], base[2], base[3], k>>, 24), nets[k][2])>>
         \o AddressRows(hostname, base, nets, k + 1)

\* sequences of up to n (network, ssh_port) pairs, the ports among ports
RowShapes(n, ports) ==
    UNION { [1..m -> Networks \X ports] : m \in 0..n }

\* the link tables: a priority for up to MaxLinks of the pairs of networks
LinkTables ==
    UNION { { { [name |-> pair[1], other_network |-> pair[2], priority |-> f[pair]] :
                  pair \in pairs } : f \in [pairs -> Priorities] } :
            pairs \in { ps \in SUBSET (Networks \X Networks) : Cardinality(ps) <= MaxLinks } }

\* bob (WireGuard 10.8.0.3 or none, port 2200 or none, addresses 203.0.113.k/24
\* with port 2222 or none) and alice (WireGuard 10.8.0.2, port 22, addresses
\* 10.1.1.k/24 with port 2222); up to MaxAddresses address rows in all
InitResolve ==
    /\ \E wb \in {None, Some(IpNetworkNew(<<10, 8, 0, 3>>, 32))},
          pb \in {None, Some(2200)} :
          machines = <<Machine("bob", "ben", pb, wb),
                       Machine("alice", "ann", Some(22), Some(IpNetworkNew(<<10, 8, 0, 2>>, 32)))>>
    /\ \E ra \in RowShapes(MaxAddresses, {Some(2222)}),
          rb \in RowShapes(MaxAddresses, {None, Some(2222)}) :
          /\ Len(ra) + Len(rb) <= MaxAddresses
          /\ machine_addresses = AddressRows("alice", <<10, 1, 1>>, ra, 1)
                                 \o AddressRows("bob", <<203, 0, 113>>, rb, 1)
    /\ network_links \in LinkTables
    /\ dirs = {} /\ files = {} /\ procs = <<>>
    /\ stdout = <<>> /\ resolved = <<>>
    /\ call = [fn |-> "none"]
    /\ result = NoResult

SpecResolve == InitResolve /\ [][PrintSshConfig]_vars

-----------------------------------------------------------------------------
(* Properties of print_ssh_config *)

\* the networks the machine called hostname has address rows on
NetworksOfHost(hostname) ==
    { machine_addresses[k].network :
        k \in { n \in 1..Len(machine_addresses) : machine_addresses[n].hostname = hostname } }
\* the address rows of the machine called hostname
AddressRowsOfHost(hostname) ==
    { machine_addresses[k] :
        k \in { n \in 1..Len(machine_addresses) : machine_addresses[n].hostname = hostname } }
\* the link rows from a network of the source machine to a network of hostname
LinksTo(hostname) ==
    { row \in network_links :
        /\ row.name \in NetworksOfHost(call.for_machine)
        /\ row.other_network \in NetworksOfHost(hostname) }
Resolved == call.fn = "print_ssh_config" /\ IsOk(result)

\* C5: a machine some of whose networks is linked from a network of the source
\* resolves to the address and the own ssh_port of its address row on the
\* destination network of a link of the smallest priority.
C5_LinkedUsesBestLinkAddress ==
    Resolved =>
        \A i \in 1..Len(machines) :
            LinksTo(machines[i].hostname) # {} =>
                \E row \in LinksTo(machines[i].hostname) :
                    /\ \A other \in LinksTo(machines[i].hostname) :
                           row.priority <= other.priority
                    /\ \E a \in AddressRowsOfHost(machines[i].hostname) :
                           /\ a.network = row.other_network
                           /\ resolved[i] = <<Some(a.address.ip), a.ssh_port>>

\* C5 witness: bob is linked through both of his networks, the link of priority 1
\* wins over the link of priority 2, and the address row has no port of its own
C5_Witness ==
    /\ Resolved /\ call.for_machine = "alice"
    /\ network_links = {[name |-> "office", other_network |-> "office", priority |-> 2],
                        [name |-> "office", other_network |-> "public", priority |-> 1]}
    /\ NetworksOfHost("alice") = {"office"}
    /\ Len(machine_addresses) = 3
    /\ machine_addresses[2] = MachineAddress("bob", "office",
                                  IpNetworkNew(<<203, 0, 113, 1>>, 24), Some(2222))
    /\ machine_addresses[3] = MachineAddress("bob", "public",
                                  IpNetworkNew(<<203, 0, 113, 2>>, 24), None)
    /\ machines[1].ssh_port = Some(2200)
    /\ resolved[1] = <<Some(<<203, 0, 113, 2>>), None>>

\* C6: a machine none of whose networks is linked from a network of the source
\* resolves to the address of its wireguard_ip and its machine-level ssh_port,
\* and to none of its address rows.
C6_UnlinkedFallsBackToWireguard ==
    Resolved =>
        \A i \in 1..Len(machines) :
            LinksTo(machines[i].hostname) = {} =>
                /\ resolved[i][1] =
                       (IF machines[i].wireguard_ip = None THEN None
                        ELSE Some(machines[i].wireguard_ip[1].ip))
                /\ resolved[i][2] = machines[i].ssh_port
                /\ \A a \in AddressRowsOfHost(machines[i].hostname) :
                       resolved[i][1] # Some(a.address.ip)

\* C6 witness: bob shares the network office with alice, the only link row goes
\* from public to office, and bob got his WireGuard address and machine port
C6_Witness ==
    /\ Resolved /\ call.for_machine = "alice"
    /\ NetworksOfHost("alice") = {"office"}
    /\ NetworksOfHost("bob") = {"office"}
    /\ network_links = {[name |-> "public", other_network |-> "office", priority |-> 1]}
    /\ resolved[1] = <<Some(<<10, 8, 0, 3>>), Some(2200)>>

\* the positions of stdout holding a host block of hostname
BlocksOfHost(hostname) ==
    { j \in 2..Len(stdout) : stdout[j].Host = hostname }

\* C7: print_ssh_config ends without an error having printed, after the header,
\* one host block for every machine whose resolved address and port are both
\* there, with that address and port, and no block for any other machine.
C7_OneBlockPerResolvedMachine ==
    (call.fn = "print_ssh_config"
        /\ \E i \in 1..Len(machines) : machines[i].hostname = call.for_machine) =>
        /\ result = Ok(<<>>)
        /\ Len(resolved) = Len(machines)
        /\ Len(stdout) >= 1 /\ stdout[1] = Header(call.for_machine)
        /\ \A j \in 2..Len(stdout) :
               \E i \in 1..Len(machines) : stdout[j].Host = machines[i].hostname
        /\ \A i \in 1..Len(machines) :
               IF resolved[i][1] # None /\ resolved[i][2] # None
               THEN /\ Cardinality(BlocksOfHost(machines[i].hostname)) = 1
                    /\ \A j \in BlocksOfHost(machines[i].hostname) :
                           /\ stdout[j].HostName = resolved[i][1][1]
                           /\ stdout[j].Port = resolved[i][2][1]
                           /\ stdout[j].owner = machines[i].owner
               ELSE BlocksOfHost(machines[i].hostname) = {}

\* C7 witness: bob, the first machine, has a WireGuard address and no port and
\* is left out; alice, the source, after him is printed
C7_Witness ==
    /\ Resolved /\ call.for_machine = "alice"
    /\ resolved[1] = <<Some(<<10, 8, 0, 3>>), None>>
    /\ stdout = <<Header("alice"),
                  [owner |-> "ann", Host |-> "alice", HostName |-> <<10, 8, 0, 2>>, Port |-> 22]>>

\* C8: print_ssh_config fails with MissingSourceMachine carrying the hostname,
\* having printed nothing, exactly when no machine has that hostname.
C8_MissingSourceMachine ==
    call.fn = "print_ssh_config" =>
        IF \E i \in 1..Len(machines) : machines[i].hostname = call.for_machine
        THEN ~ (IsErr(result) /\ Payload(result).kind = "MissingSourceMachine")
        ELSE /\ result = Err([kind |-> "MissingSourceMachine", detail |-> call.for_machine])
             /\ stdout = <<>>

\* C8 witness: the source is missing from an inventory whose machines would
\* otherwise all resolve
C8_Witness ==
    /\ call.fn = "print_ssh_config" /\ call.for_machine = "mallory"
    /\ \A i \in 1..Len(machines) :
           machines[i].wireguard_ip # None /\ machines[i].ssh_port # None
    /\ IsErr(result) /\ stdout = <<>>

-----------------------------------------------------------------------------
(* Properties of add_machine, one invocation after the other *)

\* the errors of a missing or unparsable environment variable or of a path
\* template that cannot be formatted
ConfigurationErrors == {"Var", "AddrParse", "ParseInt", "FormatString"}

FailedOnConfiguration ==
    call.fn = "add_machine" /\ IsErr(result) /\ Payload(result).kind \in ConfigurationErrors

\* C9: an invocation of add_machine that fails on a configuration error has
\* created no directory and no file and has inserted no row.
C9_ConfigErrorBeforeMutation ==
    [][FailedOnConfiguration' =>
          (machines' = machines /\ dirs' = dirs /\ files' = files)]_vars

\* C9 witness: after an invocation that generated a key and inserted a row, an
\* invocation failed on the path template; one key file, one row
C9_Witness ==
    /\ FailedOnConfiguration
    /\ result = Err(Error("FormatString", ""))
    /\ Cardinality(files) = 1
    /\ Len(machines) = 1

\* C10: the wireguard_ip values of the machines are pairwise distinct.
C10_WireguardIpsDistinct ==
    \A i \in 1..Len(machines), j \in 1..Len(machines) :
        (i # j /\ machines[i].wireguard_ip # None) =>
            machines[i].wireguard_ip # machines[j].wireguard_ip

-----------------------------------------------------------------------------
(* Properties of add_machine invocations running at the same time *)

\* the addresses of the rows a process read
AddressesRead(p) ==
    { procs[p].existing[i].wireguard_ip[1] :
        i \in { j \in 1..Len(procs[p].existing) : procs[p].existing[j].wireguard_ip # None } }
\* p auto-allocated its address and has inserted its row
AutoDone(p) == procs[p].pc = "done" /\ procs[p].args[1].wireguard_ip = None
\* the rows of the table holding the address p chose
RowsHolding(p) ==
    { i \in 1..Len(machines) : machines[i].wireguard_ip = procs[p].wireguard_ip }

\* C4: an invocation that has inserted left a row holding the address it chose
\* from the rows it read, whatever was inserted in between; two auto-allocating
\* invocations end with the same address only when neither had read the
\* other's row, that is when both read before either inserted.
C4_DuplicateByStaleRead ==
    /\ \A p \in DOMAIN procs :
         procs[p].pc = "done" =>
            \E i \in RowsHolding(p) : machines[i].hostname = procs[p].args[1].hostname
    /\ \A p \in DOMAIN procs :
         AutoDone(p) => procs[p].wireguard_ip[1] \notin AddressesRead(p)
    /\ \A p \in DOMAIN procs, q \in DOMAIN procs :
         (p # q /\ AutoDone(p) /\ AutoDone(q)
              /\ procs[p].wireguard_ip = procs[q].wireguard_ip) =>
            /\ procs[p].wireguard_ip[1] \notin AddressesRead(q)
            /\ procs[q].wireguard_ip[1] \notin AddressesRead(p)

\* C4 witness: two auto-allocating invocations read the same rows, chose the
\* same address, and both inserted: two rows hold that address
C4_Witness ==
    \E p \in DOMAIN procs, q \in DOMAIN procs :
        /\ p # q /\ AutoDone(p) /\ AutoDone(q)
        /\ procs[p].existing = procs[q].existing
        /\ procs[p].wireguard_ip = procs[q].wireguard_ip
        /\ Cardinality(RowsHolding(p)) = 2
        /\ \E i \in RowsHolding(p), j \in RowsHolding(p) :
               /\ machines[i].hostname = procs[p].args[1].hostname
               /\ machines[j].hostname = procs[q].args[1].hostname
               /\ i # j

=============================================================================
